---- MODULE Spec2Model ----
(***************************************************************************)
(* Barycentric Lagrange interpolation labs (lesson 3) and the binomial     *)
(* programs their weights come from.                                       *)
(*                                                                         *)
(* C doubles are modelled as exact rationals over unbounded naturals, plus *)
(* one non-finite value standing for the IEEE results of x/0 (inf, NaN).   *)
(* C int and long long are modelled as w-bit two's complement patterns.    *)
(***************************************************************************)
EXTENDS Integers, Sequences, FiniteSets, Bags, TLC

VARIABLES
    prog,      \* which program runs
    pc,        \* the statement the program is at
    n, k,      \* main's n and k
    res,       \* binomial programs: the value binomial(n, k) returned to printf
    xnodes,    \* double xnodes[n+1]: index -> value, for the indices written
    w,         \* double w[n+1]
    f_sample,  \* double f_sample[n+1]
    plot_i,    \* the plot loop's i
    caller,    \* the call of LagrangeInterp1D that is running
    t,         \* LagrangeInterp1D's t
    j, tdiff, numt, denomt,   \* LagrangeInterp1D's locals
    f_interp   \* the value LagrangeInterp1D returned

vars == <<prog, pc, n, k, res, xnodes, w, f_sample, plot_i, caller, t,
          j, tdiff, numt, denomt, f_interp>>

interpVars == <<xnodes, w, f_sample, plot_i, caller, t,
                j, tdiff, numt, denomt, f_interp>>

\* ------------------------------------------------------------------------
\* Unbounded naturals: little-endian digits in base 10^3, no high zero digit.
\* The operators use carry look-ahead instead of recursion, so that their
\* evaluation depth does not grow with the size of the numbers.
\* ------------------------------------------------------------------------
LimbBase == 10^3

Max(S) == CHOOSE m \in S : \A g \in S : g <= m

\* the sum of F(i), a natural number, over the finite set S
SumOver(S, F(_)) ==
    BagCardinality([i \in {g \in S : F(g) > 0} |-> F(i)])

Limb(a, i) == IF 1 <= i /\ i <= Len(a) THEN a[i] ELSE 0

NTrim(v) ==
    LET nz == {i \in 1..Len(v) : v[i] # 0}
    IN  IF nz = {} THEN <<>> ELSE SubSeq(v, 1, Max(nz))

NOfInt(i) ==
    NTrim(<<i % LimbBase, (i \div LimbBase) % LimbBase,
            (i \div (LimbBase * LimbBase)) % LimbBase,
            i \div (LimbBase * LimbBase * LimbBase)>>)

NCmp(a, b) ==
    LET L == IF Len(a) > Len(b) THEN Len(a) ELSE Len(b)
        D == {i \in 1..L : Limb(a, i) # Limb(b, i)}
    IN  IF D = {} THEN 0
        ELSE IF Limb(a, Max(D)) < Limb(b, Max(D)) THEN -1 ELSE 1

NAdd(a, b) ==
    LET L == (IF Len(a) > Len(b) THEN Len(a) ELSE Len(b)) + 1
        s == [i \in 1..L |-> Limb(a, i) + Limb(b, i)]
        carry(i) ==
            IF i = 1 THEN FALSE
            ELSE IF s[i - 1] # LimbBase - 1 THEN s[i - 1] >= LimbBase
            ELSE \E g \in 1..(i - 1) :
                     /\ s[g] >= LimbBase
                     /\ \A m \in (g + 1)..(i - 1) : s[m] = LimbBase - 1
    IN  NTrim([i \in 1..L |->
                 (s[i] + (IF carry(i) THEN 1 ELSE 0)) % LimbBase])

\* a - b for a >= b
NSub(a, b) ==
    LET d == [i \in 1..Len(a) |-> a[i] - Limb(b, i)]
        borrow(i) ==
            IF i = 1 THEN FALSE
            ELSE IF d[i - 1] # 0 THEN d[i - 1] < 0
            ELSE \E g \in 1..(i - 1) :
                     /\ d[g] < 0
                     /\ \A m \in (g + 1)..(i - 1) : d[m] <= 0
    IN  NTrim([i \in 1..Len(a) |->
                 (d[i] - (IF borrow(i) THEN 1 ELSE 0) + LimbBase) % LimbBase])

\* the digits (c[i] \div LimbBase^h) % LimbBase, moved up h places
NPlane(c, h) ==
    NTrim([i \in 1..(Len(c) + h) |->
             IF i <= h THEN 0 ELSE (c[i - h] \div (LimbBase ^ h)) % LimbBase])

\* the number with (possibly large) digits c
NNorm(c) ==
    NAdd(NAdd(NPlane(c, 0), NPlane(c, 1)), NAdd(NPlane(c, 2), NPlane(c, 3)))

NMul(a, b) ==
    IF a = <<>> \/ b = <<>> THEN <<>>
    ELSE NNorm([h \in 1..(Len(a) + Len(b) - 1) |->
                  SumOver((IF h > Len(b) THEN h + 1 - Len(b) ELSE 1)
                              ..(IF h < Len(a) THEN h ELSE Len(a)),
                          LAMBDA i : a[i] * b[h + 1 - i])])

\* a * m for 0 <= m < LimbBase
NMulDigit(a, m) ==
    IF a = <<>> \/ m = 0 THEN <<>>
    ELSE LET c == [i \in 1..Len(a) |-> a[i] * m]
         IN  NAdd(NPlane(c, 0), NPlane(c, 1))

NShift(a) == IF a = <<>> THEN a ELSE <<0>> \o a

\* floor(r / b) for b > 0 and r < b * LimbBase, one decimal digit at a time
NQuotDigit(r, b) ==
    LET h  == Cardinality({m \in 1..9 : NCmp(NMulDigit(b, 100 * m), r) <= 0})
        r1 == NSub(r, NMulDigit(b, 100 * h))
        z  == Cardinality({m \in 1..9 : NCmp(NMulDigit(b, 10 * m), r1) <= 0})
        r2 == NSub(r1, NMulDigit(b, 10 * z))
        u  == Cardinality({m \in 1..9 : NCmp(NMulDigit(b, m), r2) <= 0})
    IN  100 * h + 10 * z + u

\* long division of the digits i..Len(a) of a by b > 0: quotient digits and
\* remainder
RECURSIVE NDivRem(_, _, _)
NDivRem(a, b, i) ==
    IF i > Len(a) THEN [q |-> <<>>, r |-> <<>>]
    ELSE LET up == NDivRem(a, b, i + 1)
         IN  IF up.r = <<>> /\ a[i] = 0
             THEN [q |-> <<0>> \o up.q, r |-> <<>>]
             ELSE LET R == NAdd(NShift(up.r), NOfInt(a[i]))
                      d == IF NCmp(R, b) < 0 THEN 0 ELSE NQuotDigit(R, b)
                  IN  [q |-> <<d>> \o up.q, r |-> NSub(R, NMulDigit(b, d))]

\* floor(a / b) and a mod b for b > 0
NDiv(a, b) == NTrim(NDivRem(a, b, 1).q)

NMod(a, b) == NDivRem(a, b, 1).r

RECURSIVE NPow(_, _)
NPow(a, h) == IF h = 0 THEN <<1>> ELSE NMul(a, NPow(a, h - 1))

\* ------------------------------------------------------------------------
\* double: [s, p, q] is the rational s * p / q (s the sign, q > 0; fractions
\* are not reduced, so values are compared with REq, not with =).  NonFinite
\* stands for the IEEE results inf, -inf and NaN that a division by zero
\* produces; every operation on it gives NonFinite and every comparison with
\* it is false, as for NaN.
\* ------------------------------------------------------------------------
NonFinite == [s |-> 2, p |-> <<>>, q |-> <<>>]

RZero == [s |-> 0, p |-> <<>>, q |-> <<1>>]

RMk(s, p, q) == IF p = <<>> THEN RZero ELSE [s |-> s, p |-> p, q |-> q]

RInt(i) == IF i < 0 THEN RMk(-1, NOfInt(-i), <<1>>) ELSE RMk(1, NOfInt(i), <<1>>)

RIsFinite(x) == x.s # 2

RIsZero(x) == x.s = 0

RNeg(x) == IF x.s = 2 THEN NonFinite ELSE RMk(-x.s, x.p, x.q)

RAbs(x) == IF x.s = 2 THEN NonFinite ELSE RMk(1, x.p, x.q)

RMul(x, y) ==
    IF x.s = 2 \/ y.s = 2 THEN NonFinite
    ELSE RMk(x.s * y.s, NMul(x.p, y.p), NMul(x.q, y.q))

RDiv(x, y) ==
    IF x.s = 2 \/ y.s = 2 \/ y.s = 0 THEN NonFinite
    ELSE RMk(x.s * y.s, NMul(x.p, y.q), NMul(x.q, y.p))

RAdd(x, y) ==
    IF x.s = 2 \/ y.s = 2 THEN NonFinite
    ELSE IF x.s = 0 THEN y
    ELSE IF y.s = 0 THEN x
    ELSE LET a == NMul(x.p, y.q)
             b == NMul(y.p, x.q)
             q == NMul(x.q, y.q)
             c == NCmp(a, b)
         IN  IF x.s = y.s THEN RMk(x.s, NAdd(a, b), q)
             ELSE IF c = 0 THEN RZero
             ELSE IF c > 0 THEN RMk(x.s, NSub(a, b), q)
             ELSE RMk(y.s, NSub(b, a), q)

RSub(x, y) == RAdd(x, RNeg(y))

\* x < y and x == y of C: false when an operand is not finite
RLt(x, y) == x.s # 2 /\ y.s # 2 /\ RSub(x, y).s = -1

REq(x, y) == x.s # 2 /\ y.s # 2 /\ RSub(x, y).s = 0

\* the same double: equal numbers, or both not finite
RSame(x, y) == IF x.s = 2 \/ y.s = 2 THEN x.s = y.s ELSE RSub(x, y).s = 0

\* p/q for integers p and q > 0
RFrac(p, q) == RDiv(RInt(p), RInt(q))

\* the doubles from 2^54 on are at least 4 apart
AbsorbFrom == RMk(1, NPow(NOfInt(2^18), 3), <<1>>)

\* x - y of C doubles, rounded where the rounding decides the result: for
\* |x| >= 2^54 and |y| <= 1 the difference is nearer to x than to any other
\* double (at a tie, x is the even one), so x - y is x.  Elsewhere the
\* difference is kept exact.
Minus(x, y) ==
    IF /\ RIsFinite(x) /\ RIsFinite(y)
       /\ ~RLt(RAbs(x), AbsorbFrom)
       /\ ~RLt(RInt(1), RAbs(y))
    THEN x
    ELSE RSub(x, y)

\* ------------------------------------------------------------------------
\* C integers: an int or long long is its two's complement bit pattern, a
\* natural below 2^bits.  Multiplication wraps modulo 2^bits (what the
\* usual builds do on signed overflow); division truncates toward zero.
\* ------------------------------------------------------------------------
IntBits == 32

LongLongBits == 64

TwoTo(bits) == NPow(NOfInt(2^16), bits \div 16)

Wrap(x, bits) ==
    IF NCmp(x, TwoTo(bits)) < 0 THEN x ELSE NMod(x, TwoTo(bits))

IsNegative(x, bits) == NCmp(NAdd(x, x), TwoTo(bits)) >= 0

Magnitude(x, bits) == IF IsNegative(x, bits) THEN NSub(TwoTo(bits), x) ELSE x

\* the result of a division by zero (the program is killed by SIGFPE)
Trap == <<-1>>

\* a / b of C
Quotient(a, b, bits) ==
    IF a = Trap \/ b = Trap \/ b = <<>> THEN Trap
    ELSE LET q == NDiv(Magnitude(a, bits), Magnitude(b, bits))
         IN  IF IsNegative(a, bits) # IsNegative(b, bits) /\ q # <<>>
             THEN NSub(TwoTo(bits), q)
             ELSE Wrap(q, bits)

\* res *= k; with res an int whatever the function's type
FactorialStepInt(x, m, bits) ==
    IF x = <<>> THEN <<>> ELSE Wrap(NMul(x, NOfInt(m)), IntBits)

\* res *= k; with res a long long whatever the function's type
FactorialStepLongLong(x, m, bits) ==
    IF x = <<>> THEN <<>> ELSE Wrap(NMul(x, NOfInt(m)), LongLongBits)

\* res *= k;
FactorialStep(x, m, bits) ==
    IF x = <<>> THEN <<>> ELSE Wrap(NMul(x, NOfInt(m)), bits)

\* res = 1; for (k=2; k<=n; k++) res *= k;   (res after the iteration k = m
\* is res after the iteration k = m-1, times m)
RECURSIVE factorial(_, _)
factorial(m, bits) ==
    IF m < 2 THEN <<1>> ELSE FactorialStep(factorial(m - 1, bits), m, bits)

\* a / b with a = n!, b = k!, the division by c = (n-k)! left out
binomialWithoutC(m, i, bits) ==
    Quotient(factorial(m, bits), factorial(i, bits), bits)

\* a / b / c with a = n!, b = k!, c = (n-k)!
binomial(m, i, bits) ==
    Quotient(Quotient(factorial(m, bits), factorial(i, bits), bits),
             factorial(m - i, bits), bits)

\* the integer pattern as the double it converts to
ToDouble(x, bits) ==
    IF x = Trap THEN NonFinite
    ELSE RMk(IF IsNegative(x, bits) THEN -1 ELSE 1, Magnitude(x, bits), <<1>>)

\* ------------------------------------------------------------------------
\* The binomial programs: lab-3-1-binomial (int) and lab-3-1-binomial-fixed
\* (long long).  main prints binomial(n, k); the model runs it for every
\* 0 <= k <= n <= MaxBinomialN instead of the one pair n = 15, k = 8.
\* ------------------------------------------------------------------------
MaxBinomialN == 21

BinomialInit ==
    /\ prog \in {"binomial", "binomial-fixed"}
    /\ pc = "main"
    /\ n \in 0..MaxBinomialN
    /\ k \in 0..n
    /\ res = <<>>
    /\ xnodes = <<>> /\ w = <<>> /\ f_sample = <<>>
    /\ plot_i = 0 /\ caller = "none" /\ t = RZero
    /\ j = 0 /\ tdiff = RZero /\ numt = RZero /\ denomt = RZero
    /\ f_interp = RZero

IntMain ==
    /\ prog = "binomial"
    /\ pc = "main"
    /\ res' = binomial(n, k, IntBits)
    /\ pc' = "exit_success"
    /\ UNCHANGED <<prog, n, k, interpVars>>

LongLongMain ==
    /\ prog = "binomial-fixed"
    /\ pc = "main"
    /\ res' = binomial(n, k, LongLongBits)
    /\ pc' = "exit_success"
    /\ UNCHANGED <<prog, n, k, interpVars>>

BinomialNext == IntMain \/ LongLongMain

SpecBinomial == BinomialInit /\ [][BinomialNext]_vars

\* row m of Pascal's triangle, <<C(m,0), ..., C(m,m)>>
RECURSIVE PascalRow(_)
PascalRow(m) ==
    IF m = 0 THEN <<1>>
    ELSE LET up == PascalRow(m - 1)
         IN  IF Len(up) # m THEN <<>>
             ELSE SubSeq([i \in 1..(m + 1) |->
                            (IF i > 1 THEN up[i - 1] ELSE 0)
                              + (IF i <= m THEN up[i] ELSE 0)], 1, m + 1)

\* the binomial coefficient C(m, i), 0 <= i <= m
Choose(m, i) == PascalRow(m)[i + 1]

\* ------------------------------------------------------------------------
\* The interpolation programs.  prog is
\*   "calc"  lab-3-1-calc/math.c: nodes, weights and samples, then printed;
\*   "equi"  lab-3-3-interp-func/interp.c: the same setup, then evaluations;
\*   "cheb"  lab-3-4-interp-cheb/interp.c: Chebyshev setup, then evaluations.
\* main's n is 15 ("calc", "equi") or 32 ("cheb"); the model runs the degrees
\* 0..MaxCalcDegree for "calc", which evaluates nothing, 0..MaxDegree for
\* "equi" and "cheb" and, for "equi", 15 and 21 (the first degree whose
\* factorial leaves long long).  The 32 of "cheb" is not run: its exact sums
\* are too long.
\* ------------------------------------------------------------------------
MaxDegree == 4

MaxCalcDegree == 21

\* of the plot loop's iterations i = 0..Nplot the model runs PlotSamples + 1,
\* evenly spaced
PlotSamples == 4

Nplot == 500

PlotStride == Nplot \div PlotSamples

\* #define e 0.000000000000001
e == RMk(1, <<1>>, NPow(NOfInt(10), 15))

Fabs(x) == RAbs(x)

\* pow(x, m) for the integers m >= 0 the programs pass
RECURSIVE Pow(_, _)
Pow(x, m) == IF m = 0 THEN RInt(1) ELSE RMul(x, Pow(x, m - 1))

\* Angles are held in half-turns (multiples of pi), so acos(-1.0) is 1.
Acos(x) == IF REq(x, RInt(-1)) THEN RInt(1) ELSE NonFinite

\* cos on [0, pi/2] by Bhaskara's rational approximation
\* (pi^2 - 4 a^2) / (pi^2 + a^2): exact at 0, pi/3 and pi/2 and, like cos,
\* strictly decreasing there
CosQuadrant(r) ==
    RDiv(RSub(RInt(1), RMul(RInt(4), RMul(r, r))), RAdd(RInt(1), RMul(r, r)))

\* cos of r half-turns, 0 <= r <= 1
Cos(r) ==
    IF ~RIsFinite(r) THEN NonFinite
    ELSE IF RLt(RFrac(1, 2), r) THEN RNeg(CosQuadrant(RSub(RInt(1), r)))
    ELSE CosQuadrant(r)

\* return 1.0/(1.0 + 16.0*x*x);
f(x) == RDiv(RInt(1), RAdd(RInt(1), RMul(RMul(RInt(16), x), x)))

\* a[i] = v
Store(a, i, v) == [x \in (DOMAIN a) \cup {i} |-> IF x = i THEN v ELSE a[x]]

\* xnodes[k]*2.0/n, the shift to -1 left out
EquispacedNodeUnshifted(x, m) == RDiv(RMul(x, RInt(2)), RInt(m))

\* -1.0 + xnodes[k]*2.0/n
EquispacedNode(x, m) == RAdd(RInt(-1), RDiv(RMul(x, RInt(2)), RInt(m)))

\* cos((2*xnodes[k]+1)*acos(-1.0)/(2*n+2)), the open Chebyshev points
OpenChebNode(x, m) ==
    Cos(RDiv(RMul(RAdd(RMul(RInt(2), x), RInt(1)), Acos(RInt(-1))),
             RInt(2 * m + 2)))

\* cos(xnodes[k]*acos(-1.0)/n)
ClosedChebNode(x, m) == Cos(RDiv(RMul(x, Acos(RInt(-1))), RInt(m)))

\* binomial(n, k), the factor pow(-1.0, k) left out
EquispacedBarWeightUnsigned(m, i) ==
    ToDouble(binomial(m, i, LongLongBits), LongLongBits)

\* pow(-1.0, k) * binomial(n, k)
EquispacedBarWeight(m, i) ==
    RMul(Pow(RInt(-1), i), ToDouble(binomial(m, i, LongLongBits), LongLongBits))

\* w[0] = 1.0: the end weight not halved
ClosedChebBarWeightFirstWhole == RInt(1)

\* 0.5
ClosedChebBarWeightFirst == RFrac(1, 2)

\* pow(-1.0, k)
ClosedChebBarWeightInner(i) == Pow(RInt(-1), i)

\* 0.5, the sign of the last weight left out
ClosedChebBarWeightLastUnsigned(m) == RFrac(1, 2)

\* 0.5*pow(-1.0, n)
ClosedChebBarWeightLast(m) == RMul(RFrac(1, 2), Pow(RInt(-1), m))

\* the last index of a loop  for (j=0; j<n; j++)
LastIndexShort(m) == m - 1

\* the last index of LagrangeInterp1D's loop  for (j=0; j<=n; j++)
LastIndex(m) == m

Degrees(p) ==
    IF p = "calc" THEN 0..MaxCalcDegree
    ELSE (0..MaxDegree) \cup (IF p = "cheb" THEN {} ELSE {15, 21})

Idle ==
    /\ res = <<>>
    /\ xnodes = <<>> /\ w = <<>> /\ f_sample = <<>>
    /\ plot_i = 0 /\ caller = "none" /\ t = RZero
    /\ j = 0 /\ tdiff = RZero /\ numt = RZero /\ denomt = RZero
    /\ f_interp = RZero

Init ==
    /\ prog \in {"calc", "equi", "cheb"}
    /\ n \in Degrees(prog)
    /\ k = 0
    /\ pc = "nodes_index"
    /\ Idle

evalVars == <<caller, t, j, tdiff, numt, denomt, f_interp>>

\* for (k=0; k<=n; k++) xnodes[k] = k;
NodesIndex ==
    /\ pc = "nodes_index"
    /\ xnodes' = Store(xnodes, k, RInt(k))
    /\ IF k < n
       THEN k' = k + 1 /\ pc' = pc
       ELSE k' = 0 /\ pc' = "nodes_map"
    /\ UNCHANGED <<prog, n, res, w, f_sample, plot_i, evalVars>>

\* for (k=0; k<=n; k++) xnodes[k] = -1.0 + xnodes[k]*2.0/n;
\* for (k=0; k<=n; k++) xnodes[k] = cos(xnodes[k]*acos(-1.0)/n);
NodesMap ==
    /\ pc = "nodes_map"
    /\ xnodes' = Store(xnodes, k, IF prog = "cheb"
                                  THEN ClosedChebNode(xnodes[k], n)
                                  ELSE EquispacedNode(xnodes[k], n))
    /\ IF k < n
       THEN k' = k + 1 /\ pc' = pc
       ELSE /\ k' = 0
            /\ pc' = IF prog = "cheb" THEN "weights_first" ELSE "weights"
    /\ UNCHANGED <<prog, n, res, w, f_sample, plot_i, evalVars>>

\* for (k=0; k<=n; k++) w[k] = pow(-1.0, k) * binomial(n, k);
EquispacedBarWeights ==
    /\ pc = "weights"
    /\ w' = Store(w, k, EquispacedBarWeight(n, k))
    /\ IF k < n
       THEN k' = k + 1 /\ pc' = pc
       ELSE k' = 0 /\ pc' = "samples"
    /\ UNCHANGED <<prog, n, res, xnodes, f_sample, plot_i, evalVars>>

\* w[0] = 0.5;  and the start of  for (k=1; k<=n-1; k++)
ClosedChebBarWeightsFirst ==
    /\ pc = "weights_first"
    /\ w' = Store(w, 0, ClosedChebBarWeightFirst)
    /\ k' = 1
    /\ pc' = IF 1 <= n - 1 THEN "weights_loop" ELSE "weights_last"
    /\ UNCHANGED <<prog, n, res, xnodes, f_sample, plot_i, evalVars>>

\* for (k=1; k<=n-1; k++) w[k] = pow(-1.0, k);
ClosedChebBarWeightsLoop ==
    /\ pc = "weights_loop"
    /\ w' = Store(w, k, ClosedChebBarWeightInner(k))
    /\ k' = k + 1
    /\ pc' = IF k < n - 1 THEN pc ELSE "weights_last"
    /\ UNCHANGED <<prog, n, res, xnodes, f_sample, plot_i, evalVars>>

\* w[n] = 0.5*pow(-1.0, n);
ClosedChebBarWeightsLast ==
    /\ pc = "weights_last"
    /\ w' = Store(w, n, ClosedChebBarWeightLast(n))
    /\ k' = 0
    /\ pc' = "samples"
    /\ UNCHANGED <<prog, n, res, xnodes, f_sample, plot_i, evalVars>>

\* for (k=0; k<=n; k++) f_sample[k] = f(xnodes[(k+1) % (n+1)]);  the sample
\* of the next node stored at index k
SamplesMisaligned ==
    /\ pc = "samples"
    /\ f_sample' = Store(f_sample, k, f(xnodes[(k + 1) % (n + 1)]))
    /\ IF k < n
       THEN k' = k + 1 /\ pc' = pc
       ELSE /\ k' = 0
            /\ pc' = IF prog = "calc" THEN "print" ELSE "first_call"
    /\ UNCHANGED <<prog, n, res, xnodes, w, plot_i, evalVars>>

\* for (k=0; k<=n; k++) f_sample[k] = f(xnodes[k]);
Samples ==
    /\ pc = "samples"
    /\ f_sample' = Store(f_sample, k, f(xnodes[k]))
    /\ IF k < n
       THEN k' = k + 1 /\ pc' = pc
       ELSE /\ k' = 0
            /\ pc' = IF prog = "calc" THEN "print" ELSE "first_call"
    /\ UNCHANGED <<prog, n, res, xnodes, w, plot_i, evalVars>>

\* lab-3-1-calc: the three printf loops, return EXIT_SUCCESS
PrintTables ==
    /\ pc = "print"
    /\ pc' = "exit_success"
    /\ UNCHANGED <<prog, n, k, res, interpVars>>

\* the entry of LagrangeInterp1D with numt and denomt static: the sums of the
\* previous call are kept
CallKeepingSums(x, from) ==
    /\ t' = x
    /\ caller' = from
    /\ j' = 0
    /\ pc' = "loop"
    /\ UNCHANGED <<numt, denomt, tdiff, f_interp>>

\* the entry of LagrangeInterp1D(f_sample, xnodes, n, w, x):
\* numt = 0.0, denomt = 0.0, j = 0
Call(x, from) ==
    /\ t' = x
    /\ caller' = from
    /\ numt' = RZero
    /\ denomt' = RZero
    /\ j' = 0
    /\ pc' = "loop"
    /\ UNCHANGED <<tdiff, f_interp>>

\* double t = -1.0; f_interp = LagrangeInterp1D(f_sample, xnodes, n, w, t);
FirstCall ==
    /\ pc = "first_call"
    /\ Call(RInt(-1), "first")
    /\ UNCHANGED <<prog, n, k, res, xnodes, w, f_sample, plot_i>>

\* j <= n:  tdiff = t - xnodes[j]
EvalDiff ==
    /\ pc = "loop"
    /\ j <= LastIndex(n)
    /\ tdiff' = Minus(t, xnodes[j])
    /\ pc' = "accumulate"
    /\ UNCHANGED <<prog, n, k, res, xnodes, w, f_sample, plot_i,
                   caller, t, j, numt, denomt, f_interp>>

\* numt += barw[j] / tdiff * fvals[j];  denomt += barw[j] / tdiff;
EvalAccumulate ==
    /\ pc = "accumulate"
    /\ numt' = RAdd(numt, RMul(RDiv(w[j], tdiff), f_sample[j]))
    /\ denomt' = RAdd(denomt, RDiv(w[j], tdiff))
    /\ pc' = "check"
    /\ UNCHANGED <<prog, n, k, res, xnodes, w, f_sample, plot_i,
                   caller, t, j, tdiff, f_interp>>

\* tdiff < e, the fabs left out
NearNodeSigned(d) == RLt(d, e)

\* the check  fabs(tdiff) < e  left out
NearNodeNever(d) == FALSE

\* fabs(tdiff) <= e
NearNodeClosed(d) == ~RLt(e, Fabs(d)) /\ RIsFinite(d)

\* fabs(tdiff) < e
NearNode(d) == RLt(Fabs(d), e)

\* if (fabs(tdiff) < e) { numt = fvals[j]; denomt = 1.0; }  the break left
\* out: the loop goes on
EvalCheckNoBreak ==
    /\ pc = "check"
    /\ IF NearNode(tdiff)
       THEN numt' = f_sample[j] /\ denomt' = RInt(1)
       ELSE UNCHANGED <<numt, denomt>>
    /\ j' = j + 1
    /\ pc' = "loop"
    /\ UNCHANGED <<prog, n, k, res, xnodes, w, f_sample, plot_i,
                   caller, t, tdiff, f_interp>>

\* if (fabs(tdiff) < e) { numt = fvals[j]; denomt = 1.0; break; }  else j++
EvalCheck ==
    /\ pc = "check"
    /\ IF NearNode(tdiff)
       THEN /\ numt' = f_sample[j]
            /\ denomt' = RInt(1)
            /\ pc' = "return"
            /\ j' = j
       ELSE /\ j' = j + 1
            /\ pc' = "loop"
            /\ UNCHANGED <<numt, denomt>>
    /\ UNCHANGED <<prog, n, k, res, xnodes, w, f_sample, plot_i,
                   caller, t, tdiff, f_interp>>

\* return numt / denomt;   after the break or when j <= n fails
EvalReturn ==
    /\ pc = "return" \/ (pc = "loop" /\ j > LastIndex(n))
    /\ f_interp' = RDiv(numt, denomt)
    /\ pc' = CASE caller = "first" -> "fopen_plot"
               [] caller = "plot"  -> "plot_next"
               [] OTHER            -> "returned"
    /\ UNCHANGED <<prog, n, k, res, xnodes, w, f_sample, plot_i,
                   caller, t, j, tdiff, numt, denomt>>

\* fopen returns NULL: perror, return EXIT_FAILURE
FopenFails ==
    /\ pc \in {"fopen_plot", "fopen_nodes"}
    /\ pc' = "exit_failure"
    /\ UNCHANGED <<prog, n, k, res, interpVars>>

\* fp = fopen("interp_plot.dat", "w") succeeds;  i = 0
PlotOpen ==
    /\ pc = "fopen_plot"
    /\ plot_i' = 0
    /\ pc' = "plot"
    /\ UNCHANGED <<prog, n, k, res, xnodes, w, f_sample, evalVars>>

\* i <= Nplot:  xp = -1.0 + 2.0 * i / Nplot;
\* fp_interp = LagrangeInterp1D(f_sample, xnodes, n, w, xp);
PlotCall ==
    /\ pc = "plot"
    /\ plot_i <= Nplot
    /\ Call(RAdd(RInt(-1), RDiv(RMul(RInt(2), RInt(plot_i)), RInt(Nplot))),
            "plot")
    /\ UNCHANGED <<prog, n, k, res, xnodes, w, f_sample, plot_i>>

\* fprintf; ++i  (the model goes on to the next iteration it runs)
PlotNext ==
    /\ pc = "plot_next"
    /\ plot_i' = plot_i + PlotStride
    /\ pc' = "plot"
    /\ UNCHANGED <<prog, n, k, res, xnodes, w, f_sample, evalVars>>

\* i <= Nplot fails: fclose(fp)
PlotClose ==
    /\ pc = "plot"
    /\ plot_i > Nplot
    /\ pc' = "fopen_nodes"
    /\ UNCHANGED <<prog, n, k, res, interpVars>>

\* fpn = fopen("interp_nodes.dat", "w") succeeds: the nodes are written,
\* the gnuplot command is printed, return EXIT_SUCCESS
WriteNodes ==
    /\ pc = "fopen_nodes"
    /\ pc' = "exit_success"
    /\ UNCHANGED <<prog, n, k, res, interpVars>>

Setup ==
    \/ NodesIndex \/ NodesMap \/ EquispacedBarWeights
    \/ ClosedChebBarWeightsFirst \/ ClosedChebBarWeightsLoop
    \/ ClosedChebBarWeightsLast \/ Samples

LagrangeInterp1D == EvalDiff \/ EvalAccumulate \/ EvalCheck \/ EvalReturn

Next ==
    \/ Setup \/ PrintTables \/ FirstCall \/ LagrangeInterp1D
    \/ FopenFails \/ PlotOpen \/ PlotCall \/ PlotNext \/ PlotClose
    \/ WriteNodes

Spec == Init /\ [][Next]_vars

\* ------------------------------------------------------------------------
\* LagrangeInterp1D as a function of its arguments: one call on the nodes
\* and weights the setup of "equi" or "cheb" produces for a degree
\* 0..MaxEvalDegree, with every choice of samples from SampleValues, at the
\* nodes, next to the nodes, away from them and far away; and the call of
\* main's degree 15 with main's samples at the two end points and at 1/2.
\* ------------------------------------------------------------------------
MaxEvalDegree == 2

SampleValues == {RZero, RFrac(-5, 2)}

\* xnodes, w and f_sample as the setup loops leave them
NodeArray(p, m) ==
    [i \in 0..m |-> IF p = "cheb" THEN ClosedChebNode(RInt(i), m)
                                  ELSE EquispacedNode(RInt(i), m)]

WeightArray(p, m) ==
    [i \in 0..m |->
        IF p # "cheb" THEN EquispacedBarWeight(m, i)
        ELSE IF i = m THEN ClosedChebBarWeightLast(m)
        ELSE IF i = 0 THEN ClosedChebBarWeightFirst
        ELSE ClosedChebBarWeightInner(i)]

SampleArray(xs, m) == [i \in 0..m |-> f(xs[i])]

Half(x) == RDiv(x, RInt(2))

\* 2^60, a double far from the interval
Far == RMk(1, NPow(NOfInt(2^20), 3), <<1>>)

EvalPoints ==
    IF n > MaxEvalDegree THEN {xnodes[0], xnodes[n], RFrac(1, 2)}
    ELSE {xnodes[i] : i \in 0..n}
           \cup {RAdd(xnodes[i], Half(e)) : i \in 0..n}
           \cup {RSub(xnodes[n], e), RZero, RFrac(1, 3), RFrac(-3, 2), Far}

EvalInit ==
    /\ prog \in {"equi", "cheb"}
    /\ n \in (0..MaxEvalDegree) \cup (IF prog = "equi" THEN {15} ELSE {})
    /\ xnodes = NodeArray(prog, n)
    /\ w = WeightArray(prog, n)
    /\ f_sample \in IF n > MaxEvalDegree THEN {SampleArray(xnodes, n)}
                    ELSE [0..n -> SampleValues]
    /\ pc = "arguments"
    /\ k = 0 /\ res = <<>> /\ plot_i = 0 /\ caller = "none" /\ t = RZero
    /\ j = 0 /\ tdiff = RZero /\ numt = RZero /\ denomt = RZero
    /\ f_interp = RZero

EvalCall ==
    /\ pc = "arguments"
    /\ \E x \in EvalPoints : Call(x, "eval")
    /\ UNCHANGED <<prog, n, k, res, xnodes, w, f_sample, plot_i>>

EvalNext == EvalCall \/ LagrangeInterp1D

SpecEval == EvalInit /\ [][EvalNext]_vars

\* ------------------------------------------------------------------------
\* Properties
\* ------------------------------------------------------------------------
NodesDone == pc \notin {"nodes_index", "nodes_map"}

WeightsDone ==
    /\ NodesDone
    /\ pc \notin {"weights", "weights_first", "weights_loop", "weights_last"}

Sign(i) == IF i % 2 = 0 THEN 1 ELSE -1

\* C1 (SpecEval): interpolation property.  With equispaced nodes and weights
\* of degree n >= 1 and any samples, a call of LagrangeInterp1D at
\* t = xnodes[i] returns f_sample[i], for every i in 0..n; so does main's
\* degree 15 at the end points -1.0 and 1.0.
C1_InterpolationProperty ==
    (pc = "returned" /\ prog = "equi" /\ n >= 1) =>
        \A i \in 0..n : REq(t, xnodes[i]) => REq(f_interp, f_sample[i])

C1_Witness ==
    /\ pc = "returned" /\ prog = "equi" /\ n = 15
    /\ REq(t, RInt(1))
    /\ REq(f_interp, f(RInt(1)))

\* sum over i..n of w[i]/(t - xnodes[i]), times f_sample[i] for the numerator
RECURSIVE BarycentricSum(_, _)
BarycentricSum(i, numerator) ==
    IF i > n THEN RZero
    ELSE LET rest == BarycentricSum(i + 1, numerator)
             q == RDiv(w[i], Minus(t, xnodes[i]))
         IN  IF rest.s = 2 THEN NonFinite
             ELSE RAdd(IF numerator THEN RMul(q, f_sample[i]) ELSE q, rest)

AwayFromNodes ==
    \A i \in 0..n :
        RIsFinite(xnodes[i]) /\ ~RLt(RAbs(Minus(t, xnodes[i])), e)

\* C2 (SpecEval): when t is at distance >= e from every node, the value
\* returned is numerator/denominator with numerator the sum over all of
\* 0..n of w[i]/(t - xnodes[i])*f_sample[i] and denominator the sum over
\* all of 0..n of w[i]/(t - xnodes[i]), each index counted once.
C2_BarycentricQuotient ==
    (pc = "returned" /\ AwayFromNodes) =>
        /\ j = n + 1
        /\ RSame(f_interp, RDiv(BarycentricSum(0, TRUE),
                                BarycentricSum(0, FALSE)))

C2_Witness ==
    /\ pc = "returned" /\ prog = "cheb" /\ n = 2
    /\ REq(t, RFrac(1, 3))
    /\ AwayFromNodes
    /\ RIsFinite(f_interp) /\ ~RIsZero(f_interp)

\* C3 (SpecEval): exact node matches are handled without division by zero:
\* in no step of an evaluation has a quotient barw[j]/tdiff been formed
\* with tdiff zero.
C3_NoZeroDivisor == pc = "check" => ~RIsZero(tdiff)

C5_DegenerateDegree ==
    (prog \in {"equi", "cheb"} /\ n = 0 /\ NodesDone) =>
        /\ DOMAIN xnodes = {0}
        /\ RIsFinite(xnodes[0])

\* C6 (Spec): equispaced weight generation is free of overflow for every
\* degree 1 <= n <= 30: each weight w[i] is (-1)^i times the true binomial
\* coefficient C(n, i).
C6_WeightsOverflowFree ==
    (prog = "equi" /\ 1 <= n /\ n <= 30 /\ WeightsDone) =>
        \A i \in 0..n : REq(w[i], RInt(Sign(i) * Choose(n, i)))

\* C7 (SpecBinomial): the long long binomial(n, k) returns the true binomial
\* coefficient for every 0 <= k <= n <= 20; binomial(15, 8) is 6435.
C7_LongLongBinomialExact ==
    (prog = "binomial-fixed" /\ pc = "exit_success" /\ n <= 20) =>
        /\ res = NOfInt(Choose(n, k))
        /\ (n = 15 /\ k = 8) => res = NOfInt(6435)

C7_Witness ==
    /\ prog = "binomial-fixed" /\ pc = "exit_success"
    /\ n = 20 /\ k = 10
    /\ res = NOfInt(184756)

\* C8 (SpecBinomial): the int binomial program computes its demonstrated
\* case: binomial(15, 8) returns 6435.
C8_IntBinomialDemonstrated ==
    (prog = "binomial" /\ pc = "exit_success" /\ n = 15 /\ k = 8) =>
        res = NOfInt(6435)

\* C9 (Spec): Chebyshev weight generation.  No index outside 0..n is ever
\* written; once the weights are built the array has the n+1 entries
\* w[0] = 0.5, w[i] = (-1)^i for 1 <= i <= n-1 and, for n >= 1,
\* w[n] = 0.5*(-1)^n; for n = 0 the one entry is 0.5.
C9_ChebWeights ==
    prog = "cheb" =>
        /\ DOMAIN w \subseteq 0..n
        /\ WeightsDone =>
            /\ DOMAIN w = 0..n
            /\ n = 0 => REq(w[0], RFrac(1, 2))
            /\ n >= 1 =>
                /\ REq(w[0], RFrac(1, 2))
                /\ \A i \in 1..(n - 1) : REq(w[i], RInt(Sign(i)))
                /\ REq(w[n], RFrac(Sign(n), 2))

C9_Witness ==
    /\ prog = "cheb" /\ n = 3 /\ pc = "samples"
    /\ REq(w[0], RFrac(1, 2))
    /\ REq(w[2], RInt(1))
    /\ REq(w[3], RFrac(-1, 2))

C11_WeightSigns ==
    /\ (prog \in {"calc", "equi"} /\ 1 <= n /\ n <= 20 /\ WeightsDone) =>
           \A i \in 0..n : w[i].s = Sign(i)
    /\ (prog = "cheb" /\ n >= 2 /\ WeightsDone) =>
           /\ \A i \in 0..(n - 1) : w[i].s * w[i + 1].s = -1
           /\ REq(RAbs(w[0]), RFrac(1, 2))
           /\ REq(RAbs(w[n]), RFrac(1, 2))
           /\ \A i \in 1..(n - 1) : REq(RAbs(w[i]), RInt(1))

C11_Witness ==
    /\ prog = "calc" /\ n = 15 /\ pc = "print"
    /\ w[14].s = 1 /\ w[15].s = -1
    /\ REq(w[15], RInt(-1))

SetupDone == WeightsDone /\ pc # "samples"

\* the entry of a call of LagrangeInterp1D
CallMoment == pc = "loop" /\ j = 0

\* C12 (Spec): pairing invariant.  Once setup has finished, xnodes, w and
\* f_sample each hold exactly the entries 0..n, xnodes[i] is the node of
\* index i of the program's scheme and f_sample[i] = f(xnodes[i]); and at the
\* moment of every call of LagrangeInterp1D w[i] is the weight the scheme
\* generates for index i of degree n.
C12_Pairing ==
    /\ SetupDone =>
           /\ DOMAIN xnodes = 0..n
           /\ DOMAIN w = 0..n
           /\ DOMAIN f_sample = 0..n
           /\ \A i \in 0..n :
                 /\ RSame(f_sample[i], f(xnodes[i]))
                 /\ RSame(xnodes[i], NodeArray(prog, n)[i])
    /\ CallMoment =>
           \A i \in 0..n : RSame(w[i], WeightArray(prog, n)[i])

C12_Witness ==
    /\ prog = "cheb" /\ n = 4
    /\ pc = "loop" /\ caller = "plot" /\ plot_i > 0 /\ j = 0
    /\ REq(xnodes[2], RZero)
    /\ REq(f_sample[2], RInt(1))
    /\ REq(w[2], RInt(1))

\* the indices of the nodes closer than e to t
NearIndices == {i \in 0..n : RLt(RAbs(Minus(t, xnodes[i])), e)}

FirstNear == CHOOSE i \in NearIndices : \A m \in NearIndices : i <= m

\* the interpolant at t as a function of t and the three arrays alone: the
\* sample of the first node closer than e, else the barycentric quotient
Interpolant ==
    IF NearIndices # {} THEN f_sample[FirstNear]
    ELSE RDiv(BarycentricSum(0, TRUE), BarycentricSum(0, FALSE))

\* a call of LagrangeInterp1D has just returned to main
Returned == pc \in {"fopen_plot", "plot_next", "returned"}

\* C13 (Spec): evaluation is pure.  No step after setup, so no step of a call
\* of LagrangeInterp1D, changes xnodes, w or f_sample; and the value a call
\* returns is a function of t and the arrays alone, the same whether the call
\* is main's first or follows other calls in the plot loop.
C13_Pure ==
    /\ [](Returned => RSame(f_interp, Interpolant))
    /\ [][SetupDone => UNCHANGED <<xnodes, w, f_sample>>]_vars

C13_Witness ==
    /\ prog = "equi" /\ n = 3
    /\ pc = "plot_next" /\ plot_i > 0 /\ j = n + 1
    /\ RIsFinite(f_interp) /\ ~RIsZero(f_interp)

\* ------------------------------------------------------------------------
\* Two threads in LagrangeInterp1D of "cheb" at different points, on the same
\* xnodes, w and f_sample.  Each thread has its own call: pc, t, j, tdiff,
\* numt, denomt and f_interp map a thread to the value of its copy.  A step
\* of the specification is one statement of one thread.
\* ------------------------------------------------------------------------
MaxThreadDegree == 2

Threads == {"a", "b"}

\* double numt = 0.0; double denomt = 0.0; are automatic: the copy a
\* thread's call uses is its own.  (A static numt would be one copy.)
SlotStatic(h) == "a"

Slot(h) == h

ThreadPoints ==
    {xnodes[0], RAdd(xnodes[n], Half(e)), RFrac(1, 3), RFrac(-3, 2)}

ThreadInit ==
    /\ prog = "cheb"
    /\ n \in 0..MaxThreadDegree
    /\ xnodes = NodeArray(prog, n)
    /\ w = WeightArray(prog, n)
    /\ f_sample = SampleArray(xnodes, n)
    /\ t \in {x \in [Threads -> ThreadPoints] : x["a"] # x["b"]}
    /\ pc = [h \in Threads |-> "arguments"]
    /\ j = [h \in Threads |-> 0]
    /\ tdiff = [h \in Threads |-> RZero]
    /\ numt = [h \in Threads |-> RZero]
    /\ denomt = [h \in Threads |-> RZero]
    /\ f_interp = [h \in Threads |-> RZero]
    /\ k = 0 /\ res = <<>> /\ plot_i = 0 /\ caller = "threads"

sharedVars == <<prog, n, k, res, xnodes, w, f_sample, plot_i, caller, t>>

\* entry: numt = 0.0, denomt = 0.0, j = 0
ThreadCall(h) ==
    /\ pc[h] = "arguments"
    /\ numt' = [numt EXCEPT ![Slot(h)] = RZero]
    /\ denomt' = [denomt EXCEPT ![Slot(h)] = RZero]
    /\ j' = [j EXCEPT ![h] = 0]
    /\ pc' = [pc EXCEPT ![h] = "loop"]
    /\ UNCHANGED <<sharedVars, tdiff, f_interp>>

\* j <= n:  tdiff = t - xnodes[j]
ThreadDiff(h) ==
    /\ pc[h] = "loop"
    /\ j[h] <= LastIndex(n)
    /\ tdiff' = [tdiff EXCEPT ![h] = Minus(t[h], xnodes[j[h]])]
    /\ pc' = [pc EXCEPT ![h] = "accumulate"]
    /\ UNCHANGED <<sharedVars, j, numt, denomt, f_interp>>

\* numt += barw[j] / tdiff * fvals[j];  denomt += barw[j] / tdiff;
ThreadAccumulate(h) ==
    /\ pc[h] = "accumulate"
    /\ numt' = [numt EXCEPT ![Slot(h)] =
                   RAdd(@, RMul(RDiv(w[j[h]], tdiff[h]), f_sample[j[h]]))]
    /\ denomt' = [denomt EXCEPT ![Slot(h)] = RAdd(@, RDiv(w[j[h]], tdiff[h]))]
    /\ pc' = [pc EXCEPT ![h] = "check"]
    /\ UNCHANGED <<sharedVars, j, tdiff, f_interp>>

\* if (fabs(tdiff) < e) { numt = fvals[j]; denomt = 1.0; break; }  else j++
ThreadCheck(h) ==
    /\ pc[h] = "check"
    /\ IF NearNode(tdiff[h])
       THEN /\ numt' = [numt EXCEPT ![Slot(h)] = f_sample[j[h]]]
            /\ denomt' = [denomt EXCEPT ![Slot(h)] = RInt(1)]
            /\ pc' = [pc EXCEPT ![h] = "return"]
            /\ j' = j
       ELSE /\ j' = [j EXCEPT ![h] = @ + 1]
            /\ pc' = [pc EXCEPT ![h] = "loop"]
            /\ UNCHANGED <<numt, denomt>>
    /\ UNCHANGED <<sharedVars, tdiff, f_interp>>

\* return numt / denomt;
ThreadReturn(h) ==
    /\ pc[h] = "return" \/ (pc[h] = "loop" /\ j[h] > LastIndex(n))
    /\ f_interp' = [f_interp EXCEPT ![h] = RDiv(numt[Slot(h)], denomt[Slot(h)])]
    /\ pc' = [pc EXCEPT ![h] = "returned"]
    /\ UNCHANGED <<sharedVars, j, tdiff, numt, denomt>>

ThreadNext ==
    \E h \in Threads :
        \/ ThreadCall(h) \/ ThreadDiff(h) \/ ThreadAccumulate(h)
        \/ ThreadCheck(h) \/ ThreadReturn(h)

SpecThreads == ThreadInit /\ [][ThreadNext]_vars

\* the value LagrangeInterp1D returns for the point x when it runs alone on
\* xnodes, w and f_sample: its loop from index i with the sums p and q
RECURSIVE RunAlone(_, _, _, _)
RunAlone(x, i, p, q) ==
    IF i > n THEN RDiv(p, q)
    ELSE LET d == Minus(x, xnodes[i])
         IN  IF RLt(RAbs(d), e) THEN RDiv(f_sample[i], RInt(1))
             ELSE RunAlone(x, i + 1,
                           RAdd(p, RMul(RDiv(w[i], d), f_sample[i])),
                           RAdd(q, RDiv(w[i], d)))

\* C14 (SpecThreads): concurrent evaluation is safe.  Under every
\* interleaving of the statements of two threads evaluating at different
\* points on the same arrays, each thread returns the value it returns when
\* run alone, and the arrays are never changed.
C14_ConcurrentEvaluation ==
    /\ xnodes = NodeArray(prog, n)
    /\ f_sample = SampleArray(xnodes, n)
    /\ \A h \in Threads :
          pc[h] = "returned" =>
              RSame(f_interp[h], RunAlone(t[h], 0, RZero, RZero))

C14_Witness ==
    /\ n = 2
    /\ pc["a"] = "returned" /\ pc["b"] = "returned"
    /\ REq(t["a"], RFrac(1, 3)) /\ REq(t["b"], RFrac(-3, 2))
    /\ RIsFinite(f_interp["a"]) /\ RIsFinite(f_interp["b"])
    /\ ~REq(f_interp["a"], f_interp["b"])

\* Every statement of LagrangeInterp1D moves the program counter, and a call
\* that has not returned has a statement to execute: the processor keeps
\* executing the call, so the program counter keeps moving until the return.
Advance ==
    /\ pc # "returned"
    /\ pc' \in {"loop", "accumulate", "check", "return", "returned"} \ {pc}

\* one call of LagrangeInterp1D whose statements are eventually executed
SpecEvalFair == SpecEval /\ WF_pc(Advance)

\* C15 (SpecEvalFair): every evaluation terminates.  The loop index never
\* passes n + 1; the call returns; and at the return the loop has run n + 1
\* iterations (j = n + 1) when no node is within e of t, and i + 1
\* iterations (it broke at j = i) when i is the first node within e.
C15_Terminates ==
    /\ [](j <= n + 1)
    /\ [](pc = "returned" =>
             j = IF NearIndices = {} THEN n + 1 ELSE FirstNear)
    /\ <>(pc = "returned")

C15_Witness ==
    /\ pc = "returned" /\ n = 2
    /\ NearIndices # {} /\ FirstNear = 1
    /\ j = 1

\* C16 (SpecEval): the evaluator is total.  For equispaced nodes and
\* weights of degree n >= 1 and any samples the final division numt / denomt
\* of every call has a divisor that is a number other than zero, and the
\* divisor is 1 when the loop was left by the break.
C16_Total ==
    (pc = "returned" /\ prog = "equi" /\ n >= 1) =>
        /\ RIsFinite(denomt) /\ ~RIsZero(denomt)
        /\ NearIndices # {} => REq(denomt, RInt(1))

\* the Lagrange basis polynomial of node i at x, the factors of the nodes
\* m..n: the product of (x - xnodes[m])/(xnodes[i] - xnodes[m]) over m # i
RECURSIVE LagrangeBasis(_, _, _)
LagrangeBasis(x, i, m) ==
    IF m > n THEN RInt(1)
    ELSE LET rest == LagrangeBasis(x, i, m + 1)
         IN  IF rest.s = 2 THEN NonFinite
             ELSE IF m = i THEN rest
             ELSE RMul(rest, RDiv(RSub(x, xnodes[m]),
                                  RSub(xnodes[i], xnodes[m])))

\* the polynomial of degree <= n through the points (xnodes[i], f_sample[i]),
\* at x: the terms of the nodes i..n
RECURSIVE LagrangePolynomial(_, _)
LagrangePolynomial(x, i) ==
    IF i > n THEN RZero
    ELSE LET rest == LagrangePolynomial(x, i + 1)
         IN  IF rest.s = 2 THEN NonFinite
             ELSE RAdd(rest, RMul(f_sample[i], LagrangeBasis(x, i, 0)))

\* C17 (SpecEval): polynomial exactness.  With equispaced nodes and weights
\* of a degree 1 <= n <= 20 the samples are the values at the nodes of one
\* polynomial of degree <= n, and at every t not within e of a node (and not
\* so large that t - xnodes[j] is rounded) the value returned is that
\* polynomial at t, exactly.
C17_PolynomialExactness ==
    (/\ pc = "returned" /\ prog = "equi" /\ 1 <= n /\ n <= 20
     /\ NearIndices = {}
     /\ RLt(RAbs(t), AbsorbFrom)) =>
        REq(f_interp, LagrangePolynomial(t, 0))

C17_Witness ==
    /\ pc = "returned" /\ prog = "equi" /\ n = 15
    /\ REq(t, RFrac(1, 2))
    /\ j = n + 1
    /\ REq(f_interp, LagrangePolynomial(t, 0))

\* C18 (SpecEval): degree 1.  The equispaced nodes are {-1, 1} and the
\* weights {1, -1}; for any two samples the value returned at t = 0 is the
\* midpoint (f_sample[0] + f_sample[1])/2, and at every t not within e of a
\* node it is f_sample[0] + (f_sample[1] - f_sample[0])(t + 1)/2.
C18_DegreeOne ==
    (pc = "returned" /\ prog = "equi" /\ n = 1) =>
        /\ REq(xnodes[0], RInt(-1)) /\ REq(xnodes[1], RInt(1))
        /\ REq(w[0], RInt(1)) /\ REq(w[1], RInt(-1))
        /\ REq(t, RZero) =>
               REq(f_interp, Half(RAdd(f_sample[0], f_sample[1])))
        /\ NearIndices = {} =>
               REq(f_interp,
                   RAdd(f_sample[0],
                        Half(RMul(RSub(f_sample[1], f_sample[0]),
                                  RAdd(t, RInt(1))))))

\* the samples of an even function on the symmetric nodes
EvenSamples == \A i \in 0..n : RSame(f_sample[i], f_sample[n - i])

RungeDegree == 32

\* the plot loop's iterations the model runs: 0, GridStride, 2 GridStride, ...
GridStride == 50

RungeInit ==
    /\ prog \in {"equi", "cheb"}
    /\ n = RungeDegree
    /\ xnodes = NodeArray(prog, n)
    /\ w = WeightArray(prog, n)
    /\ f_sample = SampleArray(xnodes, n)
    /\ pc = "plot"
    /\ plot_i = 0
    /\ k = 0 /\ res = <<>> /\ caller = "none" /\ t = RZero
    /\ j = 0 /\ tdiff = RZero /\ numt = RZero /\ denomt = RZero
    /\ f_interp = RZero

\* fprintf; ++i  (on to the next iteration the model runs)
GridNext ==
    /\ pc = "plot_next"
    /\ plot_i' = plot_i + GridStride
    /\ pc' = "plot"
    /\ UNCHANGED <<prog, n, k, res, xnodes, w, f_sample, evalVars>>

RungeNext == PlotCall \/ LagrangeInterp1D \/ GridNext \/ PlotClose

SpecRunge == RungeInit /\ [][RungeNext]_vars

\* the distance between fp_interp and fp_true of the line the loop writes
PlotError == RAbs(RSub(f_interp, f(t)))

\* the fifth of the iterations the model runs, xp near -1/5
MidGrid == 4 * GridStride

InCall == pc \in {"loop", "accumulate", "check", "return", "returned"}

\* t is at distance exactly e from a node
AtThreshold == \E i \in 0..n : REq(RAbs(Minus(t, xnodes[i])), e)

\* C21 (SpecEval): the near-node short-circuit picks the first match and
\* stops.  When some node is closer than e to t and i is the first such
\* node, the loop index never passes i (nothing above i is read), the break
\* leaves numt = f_sample[i] and denomt = 1 whatever was accumulated, and the
\* call returns f_sample[i]; a t that is at distance exactly e from a node,
\* and closer than e to none, runs the whole loop and returns the quotient
\* of the sums.
C21_ShortCircuit ==
    InCall =>
        /\ NearIndices # {} =>
              /\ j <= FirstNear
              /\ pc = "return" =>
                    /\ j = FirstNear
                    /\ RSame(numt, f_sample[FirstNear])
                    /\ REq(denomt, RInt(1))
              /\ pc = "returned" => RSame(f_interp, f_sample[FirstNear])
        /\ (AtThreshold /\ NearIndices = {}) =>
              /\ pc # "return"
              /\ pc = "returned" =>
                    /\ j = n + 1
                    /\ RSame(f_interp, RDiv(numt, denomt))
                    /\ RSame(numt, BarycentricSum(0, TRUE))

C21_Witness ==
    /\ pc = "returned" /\ n = 2
    /\ NearIndices # {} /\ FirstNear = 1
    /\ ~REq(t, xnodes[1])
    /\ ~RIsZero(f_sample[1]) /\ RIsZero(f_sample[0])
    /\ RSame(f_interp, f_sample[1])


\* m! as a natural number
RECURSIVE ExactFactorial(_)
ExactFactorial(m) ==
    IF m < 2 THEN <<1>>
    ELSE LET below == ExactFactorial(m - 1)
         IN  IF below = <<>> THEN <<>> ELSE NMul(below, NOfInt(m))

\* the width of the integers of the binomial program that runs
ProgBits == IF prog = "binomial" THEN IntBits ELSE LongLongBits

\* C22 (SpecBinomial): the overflow ceiling of the factorial helper, with
\* wrapping arithmetic.  The long long factorial(n) is n! for every n in
\* 0..20 and is not n! for n = 21; the int factorial(n) is n! for every n in
\* 0..12 and is not n! for n = 13.
C22_FactorialCeiling ==
    LET ceiling == IF prog = "binomial" THEN 12 ELSE 20
        result == factorial(n, ProgBits)
    IN  pc = "exit_success" =>
            /\ n <= ceiling =>
                  /\ result = ExactFactorial(n)
                  /\ ~IsNegative(result, ProgBits)
            /\ n = ceiling + 1 => result # ExactFactorial(n)

C22_Witness ==
    /\ prog = "binomial" /\ pc = "exit_success"
    /\ n = 13 /\ k = 0
    /\ factorial(12, IntBits) = NOfInt(479001600)
    /\ factorial(13, IntBits) = NOfInt(1932053504)
    /\ factorial(13, LongLongBits) = <<800, 20, 227, 6>>
    /\ factorial(20, LongLongBits) = ExactFactorial(20)
    /\ factorial(21, LongLongBits) # ExactFactorial(21)


\* ------------------------------------------------------------------------
\* The sequence program 3-4-seq/seq.c and its Octave wrapper mex_seq.c: the
\* global struct SEQ seq and the functions init() and calc(n), called in any
\* order (main calls init(); calc(10); the wrapper, whose globals live on
\* between its calls, init(); calc(n) for each n <= SEQ_MAX it is given).
\* The struct is held in res; n is calc's argument or init's loop counter;
\* caller is the function that returned last.
\* ------------------------------------------------------------------------
SEQ_MAX == 100

\* calc's arguments -1 .. MaxSmallArgument, and those around SEQ_MAX
MaxSmallArgument == 2

CalcArguments ==
    (-1..MaxSmallArgument) \cup {10, SEQ_MAX - 1, SEQ_MAX, SEQ_MAX + 1}

\* struct SEQ seq;
seq == res

\* pow(-1.0, m) for a whole number m >= 0: 1.0 for even m, -1.0 for odd m
PowMinusOne(m) == RInt(IF m % 2 = 0 THEN 1 ELSE -1)

\* static storage: seq.x[0..SEQ_MAX] = 0.0, seq.n = 0
SeqInit ==
    /\ prog = "seq"
    /\ pc = "main"
    /\ res = [x |-> [i \in 0..SEQ_MAX |-> RZero], n |-> 0]
    /\ n = 0 /\ k = 0
    /\ xnodes = <<>> /\ w = <<>> /\ f_sample = <<>>
    /\ plot_i = 0 /\ caller = "none" /\ t = RZero
    /\ j = 0 /\ tdiff = RZero /\ numt = RZero /\ denomt = RZero
    /\ f_interp = RZero

seqUnused == <<prog, k, interpVars>>

\* init(): n = 0
InitCall ==
    /\ pc = "main"
    /\ n' = 0
    /\ pc' = "init_loop"
    /\ UNCHANGED <<res, seqUnused>>

\* n < SEQ_MAX:  seq.x[n] = 0.0;  n++
InitLoop ==
    /\ pc = "init_loop"
    /\ n < SEQ_MAX
    /\ res' = [seq EXCEPT !.x = Store(seq.x, n, RZero)]
    /\ n' = n + 1
    /\ UNCHANGED <<pc, prog, k, xnodes, w, f_sample, plot_i, t, j, tdiff,
                   numt, denomt, f_interp, caller>>

\* n < SEQ_MAX fails:  seq.n = 0;  return
InitReturn ==
    /\ pc = "init_loop"
    /\ ~(n < SEQ_MAX)
    /\ res' = [seq EXCEPT !.n = 0]
    /\ pc' = "main"
    /\ caller' = "init"
    /\ UNCHANGED <<prog, n, k, xnodes, w, f_sample, plot_i, t, j, tdiff,
                   numt, denomt, f_interp>>

\* calc(n)
CalcCall ==
    /\ pc = "main"
    /\ n' \in CalcArguments
    /\ pc' = "calc"
    /\ UNCHANGED <<res, seqUnused>>

\* if (n > SEQ_MAX) return;
CalcRefuse ==
    /\ pc = "calc"
    /\ n > SEQ_MAX
    /\ pc' = "main"
    /\ caller' = "calc"
    /\ UNCHANGED <<prog, n, k, res, xnodes, w, f_sample, plot_i, t, j,
                   tdiff, numt, denomt, f_interp>>

\* seq.n = 1;  seq.x[seq.n] = 0.0;  without the check of n before it
CalcStartUnguarded ==
    /\ pc = "calc"
    /\ res' = [x |-> Store(seq.x, 1, RZero), n |-> 1]
    /\ pc' = "calc_loop"
    /\ UNCHANGED <<n, seqUnused>>

\* seq.n = 1;  seq.x[seq.n] = 0.0;
CalcStart ==
    /\ pc = "calc"
    /\ ~(n > SEQ_MAX)
    /\ res' = [x |-> Store(seq.x, 1, RZero), n |-> 1]
    /\ pc' = "calc_loop"
    /\ UNCHANGED <<n, seqUnused>>

\* seq.n < n+1:  seq.x[seq.n] = pow(-1.0, seq.n + 1.0) / seq.n;  (seq.n)++
CalcLoop ==
    /\ pc = "calc_loop"
    /\ seq.n < n + 1
    /\ res' = [x |-> Store(seq.x, seq.n,
                           RDiv(PowMinusOne(seq.n + 1), RInt(seq.n))),
               n |-> seq.n + 1]
    /\ UNCHANGED <<pc, n, seqUnused>>

\* seq.n < n+1 fails:  return
CalcReturn ==
    /\ pc = "calc_loop"
    /\ ~(seq.n < n + 1)
    /\ pc' = "main"
    /\ caller' = "calc"
    /\ UNCHANGED <<prog, n, k, res, xnodes, w, f_sample, plot_i, t, j,
                   tdiff, numt, denomt, f_interp>>

init == InitCall \/ InitLoop \/ InitReturn

calc == CalcCall \/ CalcRefuse \/ CalcStart \/ CalcLoop \/ CalcReturn

SeqNext == init \/ calc

SpecSeq == SeqInit /\ [][SeqNext]_vars


\* C23 (SpecSeq): the sequence buffer is reset.  After init() returns,
\* every element seq.x[0..SEQ_MAX] is 0.0 and seq.n is 0, whatever calls of
\* calc and init came before.
C23_InitResets ==
    (pc = "main" /\ caller = "init") =>
        /\ \A i \in 0..SEQ_MAX : RIsZero(seq.x[i])
        /\ seq.n = 0

\* the elements of seq.x a step changes
Changed == {i \in DOMAIN seq.x' : i \notin DOMAIN seq.x \/ seq.x'[i] # seq.x[i]}

InCalc == pc \in {"calc", "calc_loop"}

\* C24 (SpecSeq): the bounds guard of calc.  calc(n) with n > SEQ_MAX
\* changes neither seq.x nor seq.n.  calc(n) with n <= SEQ_MAX writes
\* seq.x[seq.n] only for 1 <= seq.n <= max(n, 1), an index of the array,
\* and returns with seq.n = max(n, 0) + 1.  No call of init or calc writes
\* an element outside seq.x[0..SEQ_MAX].
C24_CalcGuard ==
    /\ [](DOMAIN seq.x = 0..SEQ_MAX)
    /\ [](pc = "calc_loop" =>
             /\ n <= SEQ_MAX
             /\ 1 <= seq.n
             /\ seq.n < n + 1 => (seq.n <= n /\ seq.n <= SEQ_MAX)
             /\ ~(seq.n < n + 1) => seq.n = (IF n > 0 THEN n ELSE 0) + 1)
    /\ [][/\ (pc = "calc" /\ n > SEQ_MAX) => UNCHANGED res
          /\ InCalc =>
                \A i \in Changed : 1 <= i /\ i <= (IF n > 1 THEN n ELSE 1)
          /\ (pc = "calc_loop" /\ pc' = "main") =>
                seq'.n = (IF n > 0 THEN n ELSE 0) + 1]_vars

C24_Witness ==
    /\ pc = "main" /\ caller = "calc"
    /\ n = SEQ_MAX
    /\ seq.n = SEQ_MAX + 1
    /\ REq(seq.x[SEQ_MAX], RFrac(-1, SEQ_MAX))
    /\ REq(seq.x[1], RInt(1))


\* ------------------------------------------------------------------------
\* The animated demos lab-2-2-stability-graph ("stability": the terms
\* x_{n+1} = x_n^2 - 1 in the global struct GRAPH Graph) and
\* 1-2-jacobi-graph ("jacobi": the Jacobi iterates in the global struct SEQ
\* Seq).  main fills element 0, sets n = 1 and starts a timeout; then the
\* FLTK event loop calls Timer_CB when the timeout expires and
\* GRAPHBOX::draw when the window is to be painted, one callback at a time.
\* The struct's arrays are held in res, as the elements written so far, and
\* its n in k; caller is the callback a pending timeout will call; n and j
\* are draw's local n and the index of the term draw prints.
\* ------------------------------------------------------------------------
GRAPH_MAX == 37

SEQ_MAX_jacobi == 11

\* static struct GRAPH Graph;  static struct SEQ Seq;
Graph == [x |-> res.x, y |-> res.y, n |-> k]

\* Graph.n < GRAPH_MAX,  Seq.n < SEQ_MAX
BufferMax == IF prog = "stability" THEN GRAPH_MAX ELSE SEQ_MAX_jacobi

\* double x[GRAPH_MAX+1] with GRAPH_MAX the text 36+1;  float x[SEQ_MAX]
BufferSize == IF prog = "stability" THEN 36 + 1 + 1 ELSE SEQ_MAX_jacobi

\* the value stored in a double, resp. a float, of magnitude below 2: the
\* model rounds to the spacing the type has between 1 and 2
RoundTo(x, spacing) ==
    IF x.s = 2 \/ x.s = 0 THEN x
    ELSE RMk(x.s,
             NDiv(NAdd(NMul(NMul(x.p, spacing), <<2>>), x.q),
                  NMul(x.q, <<2>>)),
             spacing)

RoundDouble(x) == RoundTo(x, NPow(NOfInt(2^26), 2))

RoundFloat(x) == RoundTo(x, NOfInt(2^23))

TimerInit ==
    /\ prog \in {"stability", "jacobi"}
    /\ pc = "main"
    /\ res = [x |-> <<>>, y |-> <<>>]
    /\ k = 0
    /\ caller = "none"
    /\ n = 0 /\ j = 0
    /\ xnodes = <<>> /\ w = <<>> /\ f_sample = <<>>
    /\ plot_i = 0 /\ t = RZero
    /\ tdiff = RZero /\ numt = RZero /\ denomt = RZero
    /\ f_interp = RZero

timerUnused ==
    <<prog, xnodes, w, f_sample, plot_i, t, tdiff, numt, denomt, f_interp>>

\* main: Graph.x[0] = -1.5; Graph.n = 1; Fl::add_timeout(0, Timer_CB);
\*       Seq.x[0] = 0.0; Seq.y[0] = 0.0; Seq.n = 1; Fl::add_timeout(2, ...);
\* Fl::run()
TimerMain ==
    /\ pc = "main"
    /\ res' = IF prog = "stability"
              THEN [x |-> Store(<<>>, 0, RFrac(-3, 2)), y |-> <<>>]
              ELSE [x |-> Store(<<>>, 0, RZero), y |-> Store(<<>>, 0, RZero)]
    /\ k' = 1
    /\ caller' = "Timer_CB"
    /\ pc' = "run"
    /\ UNCHANGED <<n, j, timerUnused>>

\* the term Timer_CB appends to Graph.x: x = Graph.x[Graph.n-1]; x*x - 1.0
StabilityTerm ==
    LET x == Graph.x[Graph.n - 1]
    IN  RoundDouble(RSub(RMul(x, x), RInt(1)))

\* Timer_CB, Graph.n < GRAPH_MAX, without the Fl::repeat_timeout at its end
TimerAppendOnce ==
    /\ pc = "run"
    /\ caller = "Timer_CB"
    /\ Graph.n < BufferMax
    /\ res' = IF prog = "stability"
              THEN [x |-> Store(Graph.x, Graph.n, StabilityTerm),
                    y |-> Graph.y]
              ELSE LET x == Graph.x[Graph.n - 1]
                       y == Graph.y[Graph.n - 1]
                   IN  [x |-> Store(Graph.x, Graph.n,
                                    RoundFloat(RDiv(RAdd(RInt(5), y),
                                                    RInt(7)))),
                        y |-> Store(Graph.y, Graph.n,
                                    RoundFloat(RDiv(RAdd(RInt(7),
                                                         RMul(RInt(3), x)),
                                                    RInt(5))))]
    /\ k' = Graph.n + 1
    /\ caller' = "none"
    /\ UNCHANGED <<pc, n, j, timerUnused>>

\* Timer_CB, Graph.n < GRAPH_MAX:  Graph.x[Graph.n] = x; Graph.n++;
\* redraw(); Fl::repeat_timeout(0.5, Timer_CB);
\* Seq.n < SEQ_MAX:  Seq.x[Seq.n] = (5.0 + y)/7.0;
\* Seq.y[Seq.n] = (7.0 + 3.0*x)/5.0; (Seq.n)++; redraw(); repeat_timeout
TimerAppend ==
    /\ pc = "run"
    /\ caller = "Timer_CB"
    /\ Graph.n < BufferMax
    /\ res' = IF prog = "stability"
              THEN [x |-> Store(Graph.x, Graph.n, StabilityTerm),
                    y |-> Graph.y]
              ELSE LET x == Graph.x[Graph.n - 1]
                       y == Graph.y[Graph.n - 1]
                   IN  [x |-> Store(Graph.x, Graph.n,
                                    RoundFloat(RDiv(RAdd(RInt(5), y),
                                                    RInt(7)))),
                        y |-> Store(Graph.y, Graph.n,
                                    RoundFloat(RDiv(RAdd(RInt(7),
                                                         RMul(RInt(3), x)),
                                                    RInt(5))))]
    /\ k' = Graph.n + 1
    /\ caller' = "Timer_CB"
    /\ UNCHANGED <<pc, n, j, timerUnused>>

\* Timer_CB, Graph.n < GRAPH_MAX fails: nothing is done, no timeout is added
TimerStop ==
    /\ pc = "run"
    /\ caller = "Timer_CB"
    /\ ~(Graph.n < BufferMax)
    /\ caller' = "none"
    /\ UNCHANGED <<pc, res, k, n, j, timerUnused>>

Timer_CB == TimerAppend \/ TimerStop

\* GRAPHBOX::draw is called:  for (n=1; ...)  resp.  for (n = 0; ...)
DrawCall ==
    /\ pc = "run"
    /\ n' = IF prog = "stability" THEN 1 ELSE 0
    /\ pc' = "draw_loop"
    /\ UNCHANGED <<res, k, caller, j, timerUnused>>

\* n < Graph.n:  Graph.x[n] is read and drawn;  n++
DrawLoop ==
    /\ pc = "draw_loop"
    /\ n < Graph.n
    /\ n' = n + 1
    /\ UNCHANGED <<pc, res, k, caller, j, timerUnused>>

\* n < Graph.n fails:  the term printed is the one at the loop's final n
DrawTextPastEnd ==
    /\ pc = "draw_loop"
    /\ ~(n < Graph.n)
    /\ j' = n
    /\ pc' = "draw_text"
    /\ UNCHANGED <<res, k, caller, n, timerUnused>>

\* n < Graph.n fails:  n = Graph.n-1; sprintf(..., n, Graph.x[n]);
\* resp.  sprintf(..., Seq.x[n-1], Seq.y[n-1]);
DrawText ==
    /\ pc = "draw_loop"
    /\ ~(n < Graph.n)
    /\ j' = IF prog = "stability" THEN Graph.n - 1 ELSE n - 1
    /\ pc' = "draw_text"
    /\ UNCHANGED <<res, k, caller, n, timerUnused>>

\* fl_draw(str, ...); draw returns to the event loop, its locals end
DrawReturn ==
    /\ pc = "draw_text"
    /\ pc' = "run"
    /\ n' = 0
    /\ j' = 0
    /\ UNCHANGED <<res, k, caller, timerUnused>>

draw == DrawCall \/ DrawLoop \/ DrawText \/ DrawReturn

TimerNext == TimerMain \/ Timer_CB \/ draw

SpecTimer == TimerInit /\ [][TimerNext]_vars


\* what a call of Timer_CB does to Graph.n and to the pending timeout
Tick ==
    /\ pc = "run"
    /\ caller = "Timer_CB"
    /\ IF k < BufferMax THEN k' = k + 1 /\ caller' = "Timer_CB"
                         ELSE k' = k /\ caller' = "none"

\* the event loop runs callbacks when they are due: main reaches Fl::run,
\* a draw that was called runs to its return, and a pending timeout is
\* called
SpecTimerFair ==
    /\ SpecTimer
    /\ WF_pc(pc = "main" /\ pc' = "run")
    /\ WF_vars(DrawLoop \/ DrawText \/ DrawReturn)
    /\ SF_<<k, caller>>(Tick)

\* C25 (SpecTimer): the plot buffer of the animated demos.  After main's
\* initialisation, under every interleaving of timer ticks and draw calls,
\* 1 <= n <= MAX; the elements 0..n-1 of the arrays, and no others, have
\* been written; a tick that writes, writes element n < MAX, inside the
\* array, and adds one to n; and every element draw reads is one of 0..n-1.
C25_PlotBuffer ==
    /\ [](pc # "main" =>
             /\ 1 <= Graph.n /\ Graph.n <= BufferMax
             /\ BufferMax <= BufferSize
             /\ DOMAIN Graph.x = 0..(Graph.n - 1)
             /\ prog = "jacobi" => DOMAIN Graph.y = 0..(Graph.n - 1)
             /\ (pc = "draw_loop" /\ n < Graph.n) => n \in DOMAIN Graph.x
             /\ pc = "draw_text" => j \in DOMAIN Graph.x)
    /\ [][(pc = "run" /\ Graph' # Graph) =>
             /\ Graph.n < BufferMax
             /\ Graph.n < BufferSize
             /\ DOMAIN Graph'.x = DOMAIN Graph.x \cup {Graph.n}
             /\ \A i \in DOMAIN Graph.x : Graph'.x[i] = Graph.x[i]
             /\ Graph'.n = Graph.n + 1]_vars

C25_Witness ==
    /\ prog = "stability"
    /\ pc = "draw_text"
    /\ Graph.n = GRAPH_MAX
    /\ j = 36
    /\ caller = "Timer_CB"

\* C26 (SpecTimerFair): the animation stops.  A tick leaves a timeout
\* pending exactly when it has appended a term; n - 1 terms have been
\* appended to the one of main; a tick appends nothing only when n = MAX
\* (37 terms in "stability", 11 points in "jacobi"), and from then on no
\* timeout is pending and the buffer never changes; and that is reached.
C26_AnimationStops ==
    /\ [][(pc = "run" /\ pc' = "run") =>
             /\ caller' = "Timer_CB" <=> Graph'.n = Graph.n + 1
             /\ caller' = "none" =>
                    (Graph' = Graph /\ Graph.n = BufferMax)]_vars
    /\ [](pc # "main" => Cardinality(DOMAIN Graph.x) = Graph.n)
    /\ [][(pc # "main" /\ caller = "none") =>
             (caller' = "none" /\ Graph' = Graph)]_vars
    /\ [][(pc = "run" /\ pc' = "run") => Tick]_vars
    /\ <>[](/\ caller = "none"
            /\ Graph.n = BufferMax
            /\ Graph.n = IF prog = "stability" THEN 37 ELSE 11)

C26_Witness ==
    /\ prog = "stability"
    /\ pc = "run"
    /\ caller = "none"
    /\ Graph.n = 37
    /\ DOMAIN Graph.x = 0..36


\* ------------------------------------------------------------------------
\* lab-3-3-interp-func/octave/mex_interp.c: the Octave entry point of the
\* evaluator.  prog = "mex"; res holds the call's arguments, the indices
\* the evaluator has read and the value returned in plhs[0]; k counts the
\* calls of LagrangeInterp1D; xnodes, w and f_sample are the row vectors
\* prhs[1], prhs[2] and prhs[0], with the indices 0..L-1.
\* ------------------------------------------------------------------------
MaxMexLength == 2

\* the numbers of arguments of a call
MexArgumentCounts == {0, 3, 4, 5}

MexSamples == {RInt(2), RInt(3)}

\* the nodes 1/2, 1, 3/2, ... and their barycentric weights up to scale
MexNodes(len) == [i \in 0..(len - 1) |-> RFrac(i + 1, 2)]

MexWeights(len) ==
    [i \in 0..(len - 1) |-> RInt(Sign(i) * Choose(len - 1, i))]

MexPoints == {RZero, RFrac(1, 2), RFrac(3, 4), RInt(1), RInt(-1), Far}

\* mxGetN(prhs[0]): the number of columns
mxGetN(a) == Cardinality(DOMAIN a)

\* floor(log2 |x|) as the power of two 2^floor(log2 |x|), x finite, not 0
RECURSIVE Binade(_)
Binade(x) ==
    IF ~RLt(RAbs(x), RInt(2)) THEN RMul(RInt(2), Binade(RDiv(x, RInt(2))))
    ELSE IF RLt(RAbs(x), RInt(1)) THEN RDiv(Binade(RMul(x, RInt(2))), RInt(2))
    ELSE RInt(1)

\* the double nearest to x: the multiple of 2^-52 * Binade(x) nearest to it
NearestDouble(x) ==
    IF x.s = 2 \/ x.s = 0 THEN x
    ELSE LET ulp == RDiv(Binade(x), RMk(1, NPow(NOfInt(2^26), 2), <<1>>))
             c   == RDiv(RAbs(x), ulp)
             m   == NDiv(NAdd(NMul(c.p, <<2>>), c.q), NMul(c.q, <<2>>))
         IN  RMul(RMk(x.s, m, <<1>>), ulp)

\* x + y of C doubles for |y| <= 1: x when |x| >= 2^54, y when x is 0.0,
\* else the double nearest to the sum
Plus(x, y) ==
    IF ~RIsFinite(x) \/ ~RIsFinite(y) THEN NonFinite
    ELSE IF RIsZero(x) THEN y
    ELSE IF ~RLt(RAbs(x), AbsorbFrom) THEN x
    ELSE NearestDouble(RAdd(x, y))

\* what a read of a double past the end of an array can give
Garbage == {RZero, RInt(1), NonFinite}

\* the values a[i] can give
Read(a, i) == IF i \in DOMAIN a THEN {a[i]} ELSE Garbage

MexInit ==
    /\ prog = "mex"
    /\ pc = "mexFunction"
    /\ \E len \in 0..MaxMexLength :
          /\ xnodes = MexNodes(len)
          /\ w = MexWeights(len)
          /\ f_sample \in [0..(len - 1) -> MexSamples]
    /\ \E c \in MexArgumentCounts, x \in MexPoints :
          res = [nrhs |-> c, t |-> x, reads |-> {}, plhs |-> <<>>]
    /\ n = 0 /\ k = 0 /\ plot_i = 0 /\ caller = "none" /\ t = RZero
    /\ j = 0 /\ tdiff = RZero /\ numt = RZero /\ denomt = RZero
    /\ f_interp = RZero

mexUnused == <<prog, xnodes, w, f_sample, plot_i>>

\* if (nrhs < 4) { plhs[0] = mxCreateDoubleScalar(0); return; }
MexTooFewArguments ==
    /\ pc = "mexFunction"
    /\ res.nrhs < 4
    /\ res' = [res EXCEPT !.plhs = <<RZero>>]
    /\ pc' = "mex_returned"
    /\ UNCHANGED <<n, k, caller, t, j, tdiff, numt, denomt, f_interp,
                   mexUnused>>

\* int n = mxGetN(prhs[0]);
\* if (n < 1) { plhs[0] = mxCreateDoubleScalar(0); return; }
MexNoColumns ==
    /\ pc = "mexFunction"
    /\ ~(res.nrhs < 4)
    /\ n' = mxGetN(f_sample)
    /\ n' < 1
    /\ res' = [res EXCEPT !.plhs = <<RZero>>]
    /\ pc' = "mex_returned"
    /\ UNCHANGED <<k, caller, t, j, tdiff, numt, denomt, f_interp,
                   mexUnused>>

\* the call of line 57 with the check  nrhs < 4  weakened to  nrhs < 3
MexCallThreeArguments ==
    /\ pc = "mexFunction"
    /\ ~(res.nrhs < 3)
    /\ n' = mxGetN(f_sample)
    /\ ~(n' < 1)
    /\ k' = k + 1
    /\ t' = Plus(res.t, e)
    /\ caller' = "mex"
    /\ numt' = RZero
    /\ denomt' = RZero
    /\ j' = 0
    /\ pc' = "mex_loop"
    /\ UNCHANGED <<res, tdiff, f_interp, mexUnused>>

\* both checks pass:  double t = mxGetScalar(prhs[3]);
\* res = LagrangeInterp1D(fvals, xnodes, n, barw, t + e);  up to the entry
\* of LagrangeInterp1D: numt = 0.0, denomt = 0.0, j = 0
MexCall ==
    /\ pc = "mexFunction"
    /\ ~(res.nrhs < 4)
    /\ n' = mxGetN(f_sample)
    /\ ~(n' < 1)
    /\ k' = k + 1
    /\ t' = Plus(res.t, e)
    /\ caller' = "mex"
    /\ numt' = RZero
    /\ denomt' = RZero
    /\ j' = 0
    /\ pc' = "mex_loop"
    /\ UNCHANGED <<res, tdiff, f_interp, mexUnused>>

\* j <= n:  tdiff = t - xnodes[j];  a read past the end of xnodes gives
\* some double or stops the process
MexDiff ==
    /\ pc = "mex_loop"
    /\ j <= n
    /\ res' = [res EXCEPT !.reads = @ \cup {j}]
    /\ \/ /\ \E x \in Read(xnodes, j) : tdiff' = Minus(t, x)
          /\ pc' = "mex_accumulate"
       \/ /\ j \notin DOMAIN xnodes
          /\ tdiff' = tdiff
          /\ pc' = "mex_fault"
    /\ UNCHANGED <<n, k, caller, t, j, numt, denomt, f_interp, mexUnused>>

\* numt += barw[j] / tdiff * fvals[j];  denomt += + barw[j] / tdiff;
MexAccumulate ==
    /\ pc = "mex_accumulate"
    /\ \E b \in Read(w, j), s \in Read(f_sample, j) :
          /\ numt' = RAdd(numt, RMul(RDiv(b, tdiff), s))
          /\ denomt' = RAdd(denomt, RDiv(b, tdiff))
    /\ pc' = "mex_check"
    /\ UNCHANGED <<n, k, res, caller, t, j, tdiff, f_interp, mexUnused>>

\* if (fabs(tdiff) < e) { numt = fvals[j]; denomt = 1.0; break; }  else j++
MexCheck ==
    /\ pc = "mex_check"
    /\ IF NearNode(tdiff)
       THEN /\ \E s \in Read(f_sample, j) : numt' = s
            /\ denomt' = RInt(1)
            /\ pc' = "mex_return"
            /\ j' = j
       ELSE /\ j' = j + 1
            /\ pc' = "mex_loop"
            /\ UNCHANGED <<numt, denomt>>
    /\ UNCHANGED <<n, k, res, caller, t, tdiff, f_interp, mexUnused>>

\* return numt / denomt;  plhs[0] = mxCreateDoubleScalar(res);
MexReturn ==
    /\ pc = "mex_return" \/ (pc = "mex_loop" /\ j > n)
    /\ f_interp' = RDiv(numt, denomt)
    /\ res' = [res EXCEPT !.plhs = <<f_interp'>>]
    /\ pc' = "mex_returned"
    /\ UNCHANGED <<n, k, caller, t, j, tdiff, numt, denomt, mexUnused>>

mexFunction ==
    \/ MexTooFewArguments
    \/ MexNoColumns
    \/ MexCall
    \/ MexDiff
    \/ MexAccumulate
    \/ MexCheck
    \/ MexReturn

MexNext == mexFunction

SpecMex == MexInit /\ [][MexNext]_vars


\* the length L of the three row vectors of the call
MexLength == Cardinality(DOMAIN f_sample)

\* C27 (SpecMex): the Octave entry point, called with three row vectors of
\* equal length L >= 1, makes the evaluator read only the indices 0..L-1
\* of the arrays.
C27_ReadsInBounds ==
    (prog = "mex" /\ MexLength >= 1) => res.reads \subseteq 0..(MexLength - 1)


\* the value LagrangeInterp1D(f_sample, xnodes, m, w, x) returns when all
\* its reads are inside the arrays: its loop from index i with the sums p
\* and q
RECURSIVE Evaluate(_, _, _, _, _)
Evaluate(x, i, m, p, q) ==
    IF i > m THEN RDiv(p, q)
    ELSE LET d == Minus(x, xnodes[i])
         IN  IF NearNode(d) THEN RDiv(f_sample[i], RInt(1))
             ELSE Evaluate(x, i + 1, m,
                           RAdd(p, RMul(RDiv(w[i], d), f_sample[i])),
                           RAdd(q, RDiv(w[i], d)))

\* a call with four arguments and L >= 1 columns has returned
MexReturned == prog = "mex" /\ pc = "mex_returned" /\ k = 1

\* C28 (SpecMex): the Octave entry point returns the interpolant at the
\* caller's point t: the value the evaluator returns at t for the L nodes,
\* and, when t is a node, that node's sample, the loop having left through
\* the near-node branch at that node.
C28_MexReturnsInterpolant ==
    MexReturned =>
        /\ RSame(res.plhs[1], Evaluate(res.t, 0, MexLength - 1, RZero, RZero))
        /\ \A i \in DOMAIN xnodes :
              REq(res.t, xnodes[i]) =>
                 /\ RSame(res.plhs[1], f_sample[i])
                 /\ j = i
                 /\ NearNode(tdiff)

\* C29 (SpecMex): argument errors of the Octave entry point.  Called with
\* fewer than 4 arguments, or with a first argument of fewer than 1
\* column, it returns the scalar 0, never calls the evaluator and reads no
\* element of an input array; otherwise it calls the evaluator exactly
\* once and what it returns is the value the evaluator returned.
C29_MexArgumentErrors ==
    prog = "mex" =>
        /\ k <= 1
        /\ (res.nrhs < 4 \/ MexLength < 1) =>
              /\ k = 0
              /\ res.reads = {}
              /\ pc \in {"mexFunction", "mex_returned"}
              /\ pc = "mex_returned" => res.plhs = <<RZero>>
        /\ (res.nrhs >= 4 /\ MexLength >= 1) =>
              /\ pc # "mexFunction" => k = 1
              /\ pc = "mex_returned" =>
                    /\ res.plhs = <<f_interp>>
                    /\ f_interp = RDiv(numt, denomt)

C29_Witness ==
    /\ prog = "mex"
    /\ pc = "mex_returned"
    /\ res.nrhs = 3
    /\ MexLength = 2
    /\ k = 0
    /\ res.reads = {}
    /\ res.plhs = <<RZero>>


\* ------------------------------------------------------------------------
\* exam/ELearning_NUM_Exam_A/math.c ("exam_a") and task3/math.c ("task3"):
\* explicit Euler for x' = -a x + u.  res holds main's arrays t, u, x, x1
\* and x2 (a variable-length array of n+1 doubles has the indices 0..n;
\* an element exists in the model once it has been written), the indices
\* the running call of euler has read of its u and written of its x, and
\* the indices the printing loop has read.  k is main's k, j is euler's k,
\* caller names the array the running call of euler fills.
\* ------------------------------------------------------------------------
EulerN == 100

\* double T = 0.1;  double a = 1.5;  double x0 = 0.0;
EulerT == RFrac(1, 10)

EulerA == RFrac(3, 2)

EulerX0 == RZero

\* exp(-pow(d, 10.0)) to three decimals, for d = tenths/10 >= 0
ExpMinusPow10(tenths) ==
    CASE tenths <= 4  -> RInt(1)
      [] tenths = 5   -> RFrac(999, 1000)
      [] tenths = 6   -> RFrac(994, 1000)
      [] tenths = 7   -> RFrac(972, 1000)
      [] tenths = 8   -> RFrac(898, 1000)
      [] tenths = 9   -> RFrac(706, 1000)
      [] tenths = 10  -> RFrac(368, 1000)
      [] tenths = 11  -> RFrac(75, 1000)
      [] tenths = 12  -> RFrac(2, 1000)
      [] OTHER        -> RZero

EulerInit ==
    /\ prog \in {"exam_a", "task3"}
    /\ pc = "t_loop"
    /\ n = EulerN
    /\ k = 0
    /\ res = [t |-> <<>>, u |-> <<>>, x |-> <<>>, x1 |-> <<>>, x2 |-> <<>>,
              uread |-> {}, xwritten |-> {}, printed |-> {}]
    /\ caller = "none"
    /\ j = 0
    /\ xnodes = <<>> /\ w = <<>> /\ f_sample = <<>>
    /\ plot_i = 0 /\ t = RZero
    /\ tdiff = RZero /\ numt = RZero /\ denomt = RZero
    /\ f_interp = RZero

eulerUnused ==
    <<prog, n, xnodes, w, f_sample, plot_i, t, tdiff, numt, denomt, f_interp>>

\* for (k=0; k<=n; k++) t[k] = 0.0 + k*T;
TimeLoop ==
    /\ pc = "t_loop"
    /\ IF k <= n
       THEN /\ res' = [res EXCEPT !.t = Store(@, k, RMul(RInt(k), EulerT))]
            /\ k' = k + 1
            /\ pc' = pc
       ELSE /\ k' = 0
            /\ pc' = "u_loop"
            /\ res' = res
    /\ UNCHANGED <<caller, j, eulerUnused>>

\* for (k=0; k<=n; k++) u[k] = exp(-pow(t[k] - 5.0, 10.0));
\* then  euler(x, u, a, x0, T, n):  x[0] = x0;  k = 0
InputLoop ==
    /\ pc = "u_loop"
    /\ IF k <= n
       THEN /\ LET d == RSub(res.t[k], RInt(5))
                   tenths == IF k < 50 THEN 50 - k ELSE k - 50
               IN  res' = [res EXCEPT !.u =
                              Store(@, k, IF REq(RAbs(d), RFrac(tenths, 10))
                                          THEN ExpMinusPow10(tenths)
                                          ELSE NonFinite)]
            /\ k' = k + 1
            /\ UNCHANGED <<pc, caller, j>>
       ELSE /\ res' = [res EXCEPT !.x = Store(@, 0, EulerX0),
                                  !.uread = {}, !.xwritten = {0}]
            /\ caller' = "x"
            /\ j' = 0
            /\ pc' = "euler_loop"
            /\ k' = k
    /\ UNCHANGED eulerUnused

\* the array euler reads as u: main's u, in the second stage x1
EulerInput == IF caller = "x2" THEN res.x1 ELSE res.u

\* the array euler fills
EulerOutput == res[caller]

\* k < n:  x[k+1] = (1-a*T)*x[k] + T*u[k];  k++
EulerStep ==
    /\ pc = "euler_loop"
    /\ j < n
    /\ LET next == RoundDouble(
                     RAdd(RMul(RSub(RInt(1), RMul(EulerA, EulerT)),
                               EulerOutput[j]),
                          RMul(EulerT, EulerInput[j])))
       IN  res' = [res EXCEPT ![caller] = Store(@, j + 1, next),
                              !.uread = @ \cup {j},
                              !.xwritten = @ \cup {j + 1}]
    /\ j' = j + 1
    /\ UNCHANGED <<pc, k, caller, eulerUnused>>

\* k < n fails: euler returns.  exam_a goes on to print; task3 calls
\* euler(x1, u, ...), then euler(x2, x1, ...), then prints
EulerReturn ==
    /\ pc = "euler_loop"
    /\ ~(j < n)
    /\ IF prog = "task3" /\ caller # "x2"
       THEN /\ caller' = IF caller = "x" THEN "x1" ELSE "x2"
            /\ res' = [res EXCEPT ![caller'] = Store(@, 0, EulerX0),
                                  !.uread = {}, !.xwritten = {0}]
            /\ j' = 0
            /\ UNCHANGED <<pc, k>>
       ELSE /\ caller' = "none"
            /\ k' = 0
            /\ pc' = "print_loop"
            /\ UNCHANGED <<res, j>>
    /\ UNCHANGED eulerUnused

euler == EulerStep \/ EulerReturn

\* the bound of main's printing loop:  k<=n+1  in math.c,  k<=n  in task3
PrintLast == IF prog = "exam_a" THEN n + 1 ELSE n

\* for (k=0; k<=...; k++) printf(..., t[k], u[k], x[k]);  a read past the
\* end of the arrays gives some double, or stops the process
PrintLoop ==
    /\ pc = "print_loop"
    /\ IF k <= PrintLast
       THEN /\ res' = [res EXCEPT !.printed = @ \cup {k}]
            /\ k' = k + 1
            /\ \/ pc' = pc
               \/ k \notin DOMAIN res.t /\ pc' = "fault"
       ELSE /\ pc' = "exit"
            /\ UNCHANGED <<res, k>>
    /\ UNCHANGED <<caller, j, eulerUnused>>

EulerNext == TimeLoop \/ InputLoop \/ euler \/ PrintLoop

SpecEuler == EulerInit /\ [][EulerNext]_vars

\* the indices 0..n of an array of n+1 elements
Indices == 0..n

\* C30 (SpecEuler): the exam Euler program, arrays t, u, x of n+1
\* elements.  A call of euler writes exactly x[0..n], with x[0] = x0 and
\* x[k+1] = (1-a*T)*x[k] + T*u[k] for k = 0..n-1, and reads only
\* u[0..n-1]; main's printing loop reads only the indices 0..n of t, u
\* and x; no index outside 0..n is accessed.
C30_EulerIndices ==
    prog \in {"exam_a", "task3"} =>
        /\ res.xwritten \subseteq Indices
        /\ res.uread \subseteq 0..(n - 1)
        /\ res.printed \subseteq Indices
        /\ \A a \in {"t", "u", "x", "x1", "x2"} :
              DOMAIN res[a] \subseteq Indices
        /\ pc \in {"print_loop", "exit", "fault"} =>
              /\ res.xwritten = Indices
              /\ res.uread = 0..(n - 1)
              /\ DOMAIN res.x = Indices
        /\ (pc = "print_loop" /\ k = 0) =>
              /\ res.x[0] = EulerX0
              /\ \A i \in 0..(n - 1) :
                    res.x[i + 1] =
                       RoundDouble(RAdd(RMul(RFrac(85, 100), res.x[i]),
                                        RMul(EulerT, res.u[i])))

====
